---------------------------- MODULE Spec2Model ----------------------------
(***************************************************************************)
(* Family photo service: the file ingestion and calendar pipeline.         *)
(*   app/storage.py   save_file, list_files, _exif_taken_date, get_path    *)
(*   app/calendar.py  month_summary                                        *)
(*   app/main.py      upload, files, calendar_month                        *)
(*                                                                         *)
(* Python strings are sequences of one-character strings, so that pathlib, *)
(* str.split, str.replace, strptime, isoformat and the string sort of      *)
(* list_files are computed the way the code computes them.                 *)
(***************************************************************************)
EXTENDS Integers, Sequences, FiniteSets, TLC

VARIABLES
    dirs,     \* the directories of the file system, as locations
    files,    \* the regular files: location -> [bytes, mtime]
    clock,    \* the file system clock, in half seconds since Epoch
    last,     \* the request served last and its response
    pc,       \* per worker: the position inside save_file
    w         \* per worker: save_file's locals (filename, content, path, i)

vars == <<dirs, files, clock, last, pc, w>>

(***************************************************************************)
(* Python values                                                           *)
(***************************************************************************)
\* Python's None; no string equals it (a string holds one-character items).
None == <<"None">>

\* bool(x) of an Optional[str]: None and the empty string are both falsy.
Truthy(x) == x # None /\ x # <<>>

Digits == <<"0", "1", "2", "3", "4", "5", "6", "7", "8", "9">>

IsDigit(c) == \E k \in 1..10 : Digits[k] = c

DigitVal(c) == (CHOOSE k \in 1..10 : Digits[k] = c) - 1

\* str(n) of a non-negative integer.
RECURSIVE Str(_)
Str(n) == IF n < 10 THEN <<Digits[n + 1]>> ELSE Str(n \div 10) \o <<Digits[(n % 10) + 1]>>

\* "%0kd" % n, as datetime.isoformat pads its fields.
RECURSIVE Pad(_, _)
Pad(n, k) == IF k = 0 THEN <<>> ELSE Pad(n \div 10, k - 1) \o <<Digits[(n % 10) + 1]>>

\* int(s) of a string of digits.
RECURSIVE IntOf(_)
IntOf(s) == IF s = <<>> THEN 0 ELSE 10 * IntOf(SubSeq(s, 1, Len(s) - 1)) + DigitVal(s[Len(s)])

AllDigits(s) == \A k \in 1..Len(s) : IsDigit(s[k])

\* s.find(c): the first position of c in s (1-based), 0 when there is none.
Find(s, c) == IF \E k \in 1..Len(s) : s[k] = c THEN CHOOSE k \in 1..Len(s) : s[k] = c /\ \A j \in 1..(k - 1) : s[j] # c ELSE 0

\* s.rfind(c): the last position of c in s (1-based), 0 when there is none.
RFind(s, c) == IF \E k \in 1..Len(s) : s[k] = c THEN CHOOSE k \in 1..Len(s) : s[k] = c /\ \A j \in (k + 1)..Len(s) : s[j] # c ELSE 0

\* s.split(sep): the pieces of s between the occurrences of sep.
RECURSIVE Split(_, _)
Split(s, sep) ==
    LET k == Find(s, sep)
    IN  IF k = 0 THEN <<s>> ELSE <<SubSeq(s, 1, k - 1)>> \o Split(SubSeq(s, k + 1, Len(s)), sep)

\* s.replace(a, b) for one-character a and b.
Replace(s, a, b) == [k \in 1..Len(s) |-> IF s[k] = a THEN b ELSE s[k]]

\* The code point of the characters that occur in the sort keys.
Ord(c) == CASE c = "-" -> 45 [] c = "." -> 46 [] c = ":" -> 58 [] c = "T" -> 84 [] OTHER -> 48 + DigitVal(c)

\* a < b on Python strings: lexicographic by code point, a proper prefix first.
RECURSIVE StrLess(_, _)
StrLess(a, b) ==
    IF b = <<>> THEN FALSE
    ELSE IF a = <<>> THEN TRUE
    ELSE IF a[1] # b[1] THEN Ord(a[1]) < Ord(b[1])
    ELSE StrLess(Tail(a), Tail(b))

(***************************************************************************)
(* pathlib: a path is the sequence of its components                       *)
(***************************************************************************)
\* PurePosixPath(s).parts of a relative path string: empty and "." components drop.
Parts(s) == SelectSeq(Split(s, "/"), LAMBDA c : c # <<>> /\ c # <<".">>)

DATA_DIR == << <<"d", "a", "t", "a">> >>

\* DATA_DIR / filename
Join(base, filename) == base \o Parts(filename)

\* path.name: the last component.
PathName(path) == IF path = <<>> THEN <<>> ELSE path[Len(path)]

\* path.suffix: from the last dot of the name, unless the dot starts or ends the name.
PathSuffix(path) ==
    LET name == PathName(path)
        k == RFind(name, ".")
    IN  IF 1 < k /\ k < Len(name) THEN SubSeq(name, k, Len(name)) ELSE <<>>

\* path.stem: the name without its suffix.
PathStem(path) ==
    LET name == PathName(path)
        k == RFind(name, ".")
    IN  IF 1 < k /\ k < Len(name) THEN SubSeq(name, 1, k - 1) ELSE name

(***************************************************************************)
(* The file system under the working directory                             *)
(***************************************************************************)
\* A location is a path with no ".." left; <<>> is the working directory, and
\* ".." from the working directory stays there (the modelled tree ends there).
ENOENT == <<<<"ENOENT">>>>

RECURSIVE Walk(_, _, _)
Walk(ds, cur, path) ==
    IF path = <<>> THEN cur
    ELSE IF cur \notin ds THEN ENOENT
    ELSE IF Head(path) = <<".", ".">>
         THEN Walk(ds, IF cur = <<>> THEN cur ELSE SubSeq(cur, 1, Len(cur) - 1), Tail(path))
         ELSE Walk(ds, Append(cur, Head(path)), Tail(path))

\* The location a path names, or ENOENT when a directory on the way is missing.
Resolve(ds, path) == Walk(ds, <<>>, path)

\* path.exists()
Exists(ds, fs, path) ==
    LET loc == Resolve(ds, path)
    IN  loc # ENOENT /\ (loc \in ds \/ loc \in DOMAIN fs)

\* open(path, "wb") succeeds: the parent is a directory and the path is not one.
CanOpen(ds, path) ==
    LET loc == Resolve(ds, path)
    IN  /\ loc # ENOENT
        /\ loc # <<>>
        /\ loc \notin ds
        /\ SubSeq(loc, 1, Len(loc) - 1) \in ds

(***************************************************************************)
(* datetime                                                                *)
(***************************************************************************)
IsLeap(y) == (y % 4 = 0 /\ y % 100 # 0) \/ y % 400 = 0

DaysInMonth(y, m) ==
    IF m = 2 THEN (IF IsLeap(y) THEN 29 ELSE 28)
    ELSE IF m \in {4, 6, 9, 11} THEN 30 ELSE 31

\* datetime.date(y, m, d) is constructible (MINYEAR is 1).
IsDate(y, m, d) == y \in 1..9999 /\ m \in 1..12 /\ d \in 1..DaysInMonth(y, m)

RECURSIVE AddDays(_, _)
AddDays(date, n) ==
    IF n = 0 THEN date
    ELSE IF date.day < DaysInMonth(date.year, date.month)
         THEN AddDays([date EXCEPT !.day = @ + 1], n - 1)
    ELSE IF date.month < 12
         THEN AddDays([date EXCEPT !.month = @ + 1, !.day = 1], n - 1)
    ELSE AddDays([year |-> date.year + 1, month |-> 1, day |-> 1], n - 1)

\* The local wall clock at st_mtime 0: 2024-02-29T23:59:59.  An st_mtime is a
\* number of half seconds after it.
Epoch == [year |-> 2024, month |-> 2, day |-> 29]

\* datetime.fromtimestamp(st_mtime), in a zone whose offset does not change.
FromTimestamp(t) ==
    LET total == 2 * (23 * 3600 + 59 * 60 + 59) + t
        date  == AddDays(Epoch, total \div (2 * 86400))
        rest  == total % (2 * 86400)
        secs  == rest \div 2
    IN  [year |-> date.year, month |-> date.month, day |-> date.day,
         hour |-> secs \div 3600, minute |-> (secs % 3600) \div 60, second |-> secs % 60,
         microsecond |-> (rest % 2) * 500000]

\* datetime.isoformat(): the fraction is left out when the microsecond is 0.
IsoFormat(dt) ==
    Pad(dt.year, 4) \o <<"-">> \o Pad(dt.month, 2) \o <<"-">> \o Pad(dt.day, 2) \o <<"T">>
    \o Pad(dt.hour, 2) \o <<":">> \o Pad(dt.minute, 2) \o <<":">> \o Pad(dt.second, 2)
    \o (IF dt.microsecond = 0 THEN <<>> ELSE <<".">> \o Pad(dt.microsecond, 6))

\* What a parse gives: a date, or the ValueError it raises.
ParseError == [ok |-> FALSE, year |-> 0, month |-> 0, day |-> 0]

Parsed(y, m, d) == [ok |-> TRUE, year |-> y, month |-> m, day |-> d]

\* datetime.fromisoformat(s), its date: YYYY-MM-DD, then "T" and the time.
FromIsoFormat(s) ==
    IF /\ Len(s) >= 19
       /\ AllDigits(SubSeq(s, 1, 4)) /\ s[5] = "-"
       /\ AllDigits(SubSeq(s, 6, 7)) /\ s[8] = "-"
       /\ AllDigits(SubSeq(s, 9, 10)) /\ s[11] = "T"
       /\ IsDate(IntOf(SubSeq(s, 1, 4)), IntOf(SubSeq(s, 6, 7)), IntOf(SubSeq(s, 9, 10)))
    THEN Parsed(IntOf(SubSeq(s, 1, 4)), IntOf(SubSeq(s, 6, 7)), IntOf(SubSeq(s, 9, 10)))
    ELSE ParseError

\* The characters the directive %m takes at the head of s: 1[0-2] | 0[1-9] | [1-9].
MonthLen(s) ==
    IF Len(s) >= 2 /\ s[1] = "1" /\ s[2] \in {"0", "1", "2"} THEN 2
    ELSE IF Len(s) >= 2 /\ s[1] = "0" /\ IsDigit(s[2]) /\ s[2] # "0" THEN 2
    ELSE IF Len(s) >= 1 /\ IsDigit(s[1]) /\ s[1] # "0" THEN 1
    ELSE 0

\* The characters the directive %d takes: 3[01] | [12]\d | 0[1-9] | [1-9].
DayLen(s) ==
    IF Len(s) >= 2 /\ s[1] = "3" /\ s[2] \in {"0", "1"} THEN 2
    ELSE IF Len(s) >= 2 /\ s[1] \in {"1", "2"} /\ IsDigit(s[2]) THEN 2
    ELSE IF Len(s) >= 2 /\ s[1] = "0" /\ IsDigit(s[2]) /\ s[2] # "0" THEN 2
    ELSE IF Len(s) >= 1 /\ IsDigit(s[1]) /\ s[1] # "0" THEN 1
    ELSE 0

\* datetime.strptime(s, "%Y-%m-%d"): four digits, "-", a month, "-", a day,
\* nothing left over, and the three naming a date.
StrpDate(s) ==
    IF ~(Len(s) >= 5 /\ AllDigits(SubSeq(s, 1, 4)) /\ s[5] = "-") THEN ParseError
    ELSE LET afterY == SubSeq(s, 6, Len(s))
             ml     == MonthLen(afterY)
         IN  IF ml = 0 \/ Len(afterY) < ml + 1 \/ afterY[ml + 1] # "-" THEN ParseError
             ELSE LET afterM == SubSeq(afterY, ml + 2, Len(afterY))
                      dl     == DayLen(afterM)
                      y      == IntOf(SubSeq(s, 1, 4))
                      m      == IntOf(SubSeq(afterY, 1, ml))
                      d      == IntOf(SubSeq(afterM, 1, dl))
                  IN  IF dl = 0 \/ Len(afterM) # dl \/ ~IsDate(y, m, d) THEN ParseError
                      ELSE Parsed(y, m, d)

(***************************************************************************)
(* File contents and the EXIF block                                        *)
(***************************************************************************)
\* A file is a sequence of bytes.  The first byte of an image stands for its
\* header, with the EXIF tags DateTimeOriginal and DateTime (None when the
\* image has no such tag); every other byte is payload.
ImgHeader(orig, dt) == [tag |-> "img", orig |-> orig, dt |-> dt, v |-> 0]

Payload(v) == [tag |-> "raw", orig |-> None, dt |-> None, v |-> v]

\* _exif_taken_date(p): None unless p opens as an image with a date tag.
ExifTakenDate(ds, fs, path) ==
    LET loc == Resolve(ds, path)
    IN  IF loc = ENOENT \/ loc \notin DOMAIN fs THEN None
        ELSE LET bytes == fs[loc].bytes
             IN  IF bytes = <<>> \/ bytes[1].tag # "img" THEN None
                 ELSE LET hdr == bytes[1]
                          dt  == IF Truthy(hdr.orig) THEN hdr.orig ELSE hdr.dt
                      IN  IF ~Truthy(dt) THEN None
                          ELSE Replace(Split(dt, " ")[1], ":", "-")

\* get_path(filename)
GetPath(filename) == Join(DATA_DIR, filename)

(***************************************************************************)
(* storage.save_file                                                       *)
(***************************************************************************)
\* DATA_DIR / f"{stem}_{i}{suffix}"
Candidate(stem, i, suffix) == Join(DATA_DIR, stem \o <<"_">> \o Str(i) \o suffix)

\* The while loop: the first i, counting from i, whose candidate does not exist.
RECURSIVE Probe(_, _, _, _, _)
Probe(ds, fs, stem, suffix, i) ==
    IF ~Exists(ds, fs, Candidate(stem, i, suffix)) THEN Candidate(stem, i, suffix)
    ELSE Probe(ds, fs, stem, suffix, i + 1)

\* save_file without its existence check: the desired path, taken or not.
SavePathUnchecked(ds, fs, filename) == Join(DATA_DIR, filename)

\* The path save_file settles on before it writes.
SavePath(ds, fs, filename) ==
    LET path == Join(DATA_DIR, filename)
    IN  IF Exists(ds, fs, path) THEN Probe(ds, fs, PathStem(path), PathSuffix(path), 1)
        ELSE path

\* write_bytes with the file opened for appending: what is there stays in front.
WriteBytesAppend(ds, fs, path, content, n, t) ==
    LET loc == Resolve(ds, path)
        old == IF loc \in DOMAIN fs THEN fs[loc].bytes ELSE <<>>
        new == [bytes |-> old \o SubSeq(content, 1, n), mtime |-> t]
    IN  [l \in DOMAIN fs \cup {loc} |-> IF l = loc THEN new ELSE fs[l]]

\* path.write_bytes(content) at time t, n bytes of content having reached the
\* file: all of them, or fewer when the write failed on the way (the file that
\* open created stays).
WriteBytes(ds, fs, path, content, n, t) ==
    LET loc == Resolve(ds, path)
        new == [bytes |-> SubSeq(content, 1, n), mtime |-> t]
    IN  [l \in DOMAIN fs \cup {loc} |-> IF l = loc THEN new ELSE fs[l]]

(***************************************************************************)
(* storage.list_files                                                      *)
(***************************************************************************)
\* The entries DATA_DIR.iterdir() yields: what lies directly under DATA_DIR.
Entries(ds, fs) ==
    {l \in ds \cup DOMAIN fs : Len(l) = Len(DATA_DIR) + 1 /\ SubSeq(l, 1, Len(DATA_DIR)) = DATA_DIR}

\* The orders iterdir() may yield a set of entries in.
RECURSIVE Orders(_)
Orders(S) == IF S = {} THEN {<<>>} ELSE UNION {{<<x>> \o o : o \in Orders(S \ {x})} : x \in S}

\* FileItem(...) of one regular file.
FileItem(ds, fs, loc) ==
    [filename    |-> PathName(loc),
     size_bytes  |-> Len(fs[loc].bytes),
     uploaded_at |-> IsoFormat(FromTimestamp(fs[loc].mtime)),
     taken_date  |-> ExifTakenDate(ds, fs, loc)]

\* The step of a sort without reverse=True: x goes behind every item whose key
\* is not greater.
InsertAsc(sorted, x) ==
    LET behind == {k \in 1..Len(sorted) : ~StrLess(x.uploaded_at, sorted[k].uploaded_at)}
        n      == IF behind = {} THEN 0 ELSE CHOOSE k \in behind : \A j \in behind : j <= k
    IN  SubSeq(sorted, 1, n) \o <<x>> \o SubSeq(sorted, n + 1, Len(sorted))

\* One step of the stable sort: x goes behind every item whose key is not less.
InsertDesc(sorted, x) ==
    LET behind == {k \in 1..Len(sorted) : ~StrLess(sorted[k].uploaded_at, x.uploaded_at)}
        n      == IF behind = {} THEN 0 ELSE CHOOSE k \in behind : \A j \in behind : j <= k
    IN  SubSeq(sorted, 1, n) \o <<x>> \o SubSeq(sorted, n + 1, Len(sorted))

\* sorted(items, key=lambda x: x.uploaded_at, reverse=True)
RECURSIVE SortedDesc(_)
SortedDesc(items) ==
    IF items = <<>> THEN <<>>
    ELSE InsertDesc(SortedDesc(SubSeq(items, 1, Len(items) - 1)), items[Len(items)])

\* list_files(), iterdir() having yielded the entries in the given order.
list_files(ds, fs, order) ==
    LET regular == SelectSeq(order, LAMBDA l : l \in DOMAIN fs)
    IN  SortedDesc([k \in 1..Len(regular) |-> FileItem(ds, fs, regular[k])])

(***************************************************************************)
(* calendar.month_summary                                                  *)
(***************************************************************************)
\* The loop's date with the priority dropped: uploaded_at, whatever taken_date is.
FileDateUploaded(f) == FromIsoFormat(f.uploaded_at)

\* The loop's date with a lenient parse: uploaded_at when taken_date does not parse.
FileDateLenient(f) ==
    IF Truthy(f.taken_date) /\ StrpDate(f.taken_date).ok THEN StrpDate(f.taken_date)
    ELSE FromIsoFormat(f.uploaded_at)

\* The datetime the loop takes for one file: strptime of taken_date when that
\* is truthy, else fromisoformat of uploaded_at.
FileDate(f) == IF Truthy(f.taken_date) THEN StrpDate(f.taken_date) ELSE FromIsoFormat(f.uploaded_at)

\* The loop from file k on: days is the list, cnt the Counter built so far.
RECURSIVE Scan(_, _, _, _, _, _)
Scan(items, k, year, month, days, cnt) ==
    IF k > Len(items) THEN [ok |-> TRUE, days |-> days, cnt |-> cnt]
    ELSE LET dt == FileDate(items[k])
         IN  IF ~dt.ok THEN [ok |-> FALSE, days |-> <<>>, cnt |-> <<>>]
             ELSE IF dt.year = year /\ dt.month = month
                  THEN Scan(items, k + 1, year, month, Append(days, dt.day),
                            [d \in DOMAIN cnt \cup {dt.day} |->
                                IF d = dt.day THEN (IF d \in DOMAIN cnt THEN cnt[d] ELSE 0) + 1
                                ELSE cnt[d]])
                  ELSE Scan(items, k + 1, year, month, days, cnt)

\* sorted(S) of a set of integers.
RECURSIVE SortedAsc(_)
SortedAsc(S) ==
    IF S = {} THEN <<>>
    ELSE LET m == CHOOSE x \in S : \A y \in S : x <= y
         IN  <<m>> \o SortedAsc(S \ {m})

\* month_summary without set(): days keeps one entry per matching file.
month_summary_dup(items, year, month) ==
    LET r    == Scan(items, 1, year, month, <<>>, <<>>)
        keys == SortedAsc(DOMAIN r.cnt)
    IN  [ok |-> r.ok, year |-> year, month |-> month,
         days |-> r.days,
         count_by_day |-> [k \in 1..Len(keys) |-> <<Str(keys[k]), r.cnt[keys[k]]>>]]

\* month_summary(files, year, month): the summary, or the ValueError raised.
\* count_by_day is the dict as the sequence of its (key, value) items.
month_summary(items, year, month) ==
    LET r    == Scan(items, 1, year, month, <<>>, <<>>)
        keys == SortedAsc(DOMAIN r.cnt)
    IN  IF ~r.ok THEN [ok |-> FALSE, year |-> year, month |-> month, days |-> <<>>, count_by_day |-> <<>>]
        ELSE [ok |-> TRUE, year |-> year, month |-> month,
              days |-> SortedAsc({r.days[k] : k \in 1..Len(r.days)}),
              count_by_day |-> [k \in 1..Len(keys) |-> <<Str(keys[k]), r.cnt[keys[k]]>>]]

(***************************************************************************)
(* Bounds and inputs                                                       *)
(***************************************************************************)
\* The most files the storage grows to, in each specification.
MaxFiles == 2

MaxListed == 3

MaxImages == 2

\* Uploaded file names: "a.j", "a_1.j", "b", "../a.j", "s/a.j".
PlainNames == {<<"a", ".", "j">>, <<"a", "_", "1", ".", "j">>, <<"b">>}

TraversalNames == {<<".", ".", "/", "a", ".", "j">>, <<"s", "/", "a", ".", "j">>}

\* Files that are not images, of two bytes and of one.
TextContents == {<<Payload(1), Payload(2)>>, <<Payload(2)>>}

\* EXIF values: 'YYYY:MM:DD HH:MM:SS'.
ExifTime == <<" ", "1", "0", ":", "0", "0", ":", "0", "0">>

Exif0305 == <<"2", "0", "2", "4", ":", "0", "3", ":", "0", "5">> \o ExifTime

Exif0229 == <<"2", "0", "2", "4", ":", "0", "2", ":", "2", "9">> \o ExifTime

\* Month 13.
Exif1305 == <<"2", "0", "2", "4", ":", "1", "3", ":", "0", "5">> \o ExifTime

\* The unknown date of the EXIF standard: blanks in place of the digits.
ExifBlank == <<" ", " ", " ", " ", ":", " ", " ", ":", " ", " ", " ", " ", " ", ":", " ", " ", ":", " ", " ">>

\* One-byte images: the header alone.
ImageContents ==
    {<<ImgHeader(Exif0305, None)>>, <<ImgHeader(None, Exif0229)>>, <<ImgHeader(Exif1305, Exif0305)>>,
     <<ImgHeader(ExifBlank, None)>>, <<ImgHeader(None, None)>>}

\* The (year, month) a calendar request asks for.
Months == {<<2024, 2>>, <<2024, 3>>}

BaseDirs == {<<>>, DATA_DIR}

SubDir == Append(DATA_DIR, <<"s">>)

NoFiles == [l \in {} |-> 0]

NoWorkers == [p \in {} |-> 0]

(***************************************************************************)
(* The request handlers of main.py, each served in one piece               *)
(***************************************************************************)
\* POST /upload: save_file, then _exif_taken_date of get_path(saved_name).
\* The clock has moved by adv half seconds when write_bytes runs, and n bytes
\* land: all of the content, or less and an OSError.
Upload(Names, Contents, Advances) ==
    /\ \E filename \in Names, content \in Contents, adv \in Advances :
          LET path == SavePath(dirs, files, filename)
              name == PathName(path)
          IN  IF ~CanOpen(dirs, path)
              THEN /\ files' = files
                   /\ clock' = clock
                   /\ last' = [op |-> "upload", filename |-> filename, content |-> content,
                               status |-> "io_error", saved_name |-> None, taken_date |-> None]
              ELSE \E n \in 0..Len(content) :
                   /\ files' = WriteBytes(dirs, files, path, content, n, clock + adv)
                   /\ clock' = clock + adv
                   /\ last' = IF n < Len(content)
                              THEN [op |-> "upload", filename |-> filename, content |-> content,
                                    status |-> "io_error", saved_name |-> None, taken_date |-> None]
                              ELSE [op |-> "upload", filename |-> filename, content |-> content,
                                    status |-> "ok", saved_name |-> name,
                                    taken_date |-> ExifTakenDate(dirs, files', GetPath(name))]
    /\ UNCHANGED <<dirs, pc, w>>

\* The lists list_files() may return, one per order of iterdir().
Listings == {list_files(dirs, files, order) : order \in Orders(Entries(dirs, files))}

\* GET /files: list_files().
Files ==
    /\ \E items \in Listings : last' = [op |-> "files", status |-> "ok", items |-> items]
    /\ UNCHANGED <<dirs, files, clock, pc, w>>

\* GET /calendar/{year}/{month}: month_summary(list_files(), year, month).
CalendarMonth ==
    /\ \E items \in Listings, ym \in Months :
          LET summary == month_summary(items, ym[1], ym[2])
          IN  last' = [op |-> "calendar", status |-> IF summary.ok THEN "ok" ELSE "error",
                       items |-> items, summary |-> summary]
    /\ UNCHANGED <<dirs, files, clock, pc, w>>

(***************************************************************************)
(* Spec: save_file under any file name                                     *)
(***************************************************************************)
\* The storage root exists and is empty (storage.py creates it on import); a
\* subdirectory "s" under it may exist.
InitWith(Dirs) ==
    /\ dirs \in Dirs
    /\ files = NoFiles
    /\ clock = 0
    /\ last = [op |-> "none"]
    /\ pc = NoWorkers
    /\ w = NoWorkers

Init == InitWith({BaseDirs, BaseDirs \cup {SubDir}})

\* At most MaxFiles files are stored.
UploadAny ==
    /\ Cardinality(DOMAIN files) < MaxFiles
    /\ Upload(PlainNames \cup TraversalNames, TextContents, {1})

Next == UploadAny \/ Files

Spec == Init /\ [][Next]_vars

(***************************************************************************)
(* SpecList: the catalog, with ties of the modification time               *)
(***************************************************************************)
\* At most MaxListed files are stored.
UploadTimed ==
    /\ Cardinality(DOMAIN files) < MaxListed
    /\ Upload({<<"a", ".", "j">>} \cup TraversalNames, {<<Payload(1)>>}, {0, 1})

NextList == UploadTimed \/ Files

InitList == InitWith({BaseDirs \cup {SubDir}})

SpecList == InitList /\ [][NextList]_vars

(***************************************************************************)
(* SpecCal: images and the calendar, under one plain file name             *)
(***************************************************************************)
\* At most MaxImages files are stored.
UploadImage ==
    /\ Cardinality(DOMAIN files) < MaxImages
    /\ Upload({<<"a", ".", "j">>}, ImageContents, {0, 1})

NextCal == UploadImage \/ Files \/ CalendarMonth

InitCal == InitWith({BaseDirs})

SpecCal == InitCal /\ [][NextCal]_vars

(***************************************************************************)
(* SpecRace: two workers inside save_file at once                          *)
(***************************************************************************)
\* A handler runs save_file without awaiting, so two uploads interleave only
\* when they are served by separate worker processes.
Workers == {1, 2}

RaceNames == {<<"a", ".", "j">>, <<"b">>}

RaceContents == {<<Payload(1)>>, <<Payload(2)>>}

\* What the storage may hold as the workers start: nothing, or "a.j".
Seeded == [l \in {Append(DATA_DIR, <<"a", ".", "j">>)} |-> [bytes |-> <<Payload(0)>>, mtime |-> 0]]

Idle == [filename |-> None, content |-> <<>>, path |-> <<>>, i |-> 0, raced |-> FALSE, saved_name |-> None]

InitRace ==
    /\ dirs = BaseDirs
    /\ files \in {NoFiles, Seeded}
    /\ clock = 0
    /\ last = [op |-> "none"]
    /\ pc = [p \in Workers |-> "idle"]
    /\ w = [p \in Workers |-> Idle]

\* upload calls save_file(file.filename, content): path = DATA_DIR / filename.
Begin(p) ==
    /\ pc[p] = "idle"
    /\ \E filename \in RaceNames, content \in RaceContents :
          w' = [w EXCEPT ![p] = [Idle EXCEPT !.filename = filename, !.content = content,
                                              !.path = Join(DATA_DIR, filename)]]
    /\ pc' = [pc EXCEPT ![p] = "check"]
    /\ UNCHANGED <<dirs, files, clock, last>>

\* if path.exists(): on to the loop with i = 1, else on to the write.
Check(p) ==
    /\ pc[p] = "check"
    /\ IF Exists(dirs, files, w[p].path)
       THEN pc' = [pc EXCEPT ![p] = "probe"] /\ w' = [w EXCEPT ![p].i = 1]
       ELSE pc' = [pc EXCEPT ![p] = "open"] /\ w' = w
    /\ UNCHANGED <<dirs, files, clock, last>>

\* One turn of the loop: take the candidate when it does not exist, else i += 1.
\* (stem and suffix are those of the desired path: the loop changes path last.)
ProbeStep(p) ==
    /\ pc[p] = "probe"
    /\ LET desired == Join(DATA_DIR, w[p].filename)
           new == Candidate(PathStem(desired), w[p].i, PathSuffix(desired))
       IN  IF ~Exists(dirs, files, new)
           THEN pc' = [pc EXCEPT ![p] = "open"] /\ w' = [w EXCEPT ![p].path = new]
           ELSE pc' = pc /\ w' = [w EXCEPT ![p].i = @ + 1]
    /\ UNCHANGED <<dirs, files, clock, last>>

\* write_bytes opens the file for writing, which creates or empties it.  raced
\* records that the other worker is past its check of the same path and has
\* not opened it yet.
OpenFile(p) ==
    /\ pc[p] = "open"
    /\ files' = WriteBytes(dirs, files, w[p].path, w[p].content, 0, clock)
    /\ w' = [w EXCEPT ![p].raced = \E q \in Workers \ {p} : pc[q] = "open" /\ w[q].path = w[p].path]
    /\ pc' = [pc EXCEPT ![p] = "write"]
    /\ UNCHANGED <<dirs, clock, last>>

\* write_bytes writes the content; save_file returns path.name.
WriteContent(p) ==
    /\ pc[p] = "write"
    /\ files' = WriteBytes(dirs, files, w[p].path, w[p].content, Len(w[p].content), clock)
    /\ w' = [w EXCEPT ![p].saved_name = PathName(w[p].path)]
    /\ pc' = [pc EXCEPT ![p] = "done"]
    /\ UNCHANGED <<dirs, clock, last>>

NextRace == \E p \in Workers : Begin(p) \/ Check(p) \/ ProbeStep(p) \/ OpenFile(p) \/ WriteContent(p)

SpecRace == InitRace /\ [][NextRace]_vars

(***************************************************************************)
(* Properties of save_file (Spec)                                          *)
(***************************************************************************)
\* The step is an upload that answered with a file name.
UploadReturned == last'.op = "upload" /\ last'.status = "ok"

\* C1 (no overwrite): no step changes the bytes of a file that existed before
\* it, nor removes one; a save onto a taken name leaves the file there as it was.
NoOverwrite ==
    [][\A l \in DOMAIN files : l \in DOMAIN files' /\ files'[l].bytes = files[l].bytes]_vars

\* "a.j" was saved while "a.j" existed: it went to "a_1.j", and "a.j" still
\* holds other bytes.
NoOverwriteWitness ==
    /\ last.op = "upload" /\ last.status = "ok"
    /\ last.filename = <<"a", ".", "j">>
    /\ last.saved_name = <<"a", "_", "1", ".", "j">>
    /\ Append(DATA_DIR, last.filename) \in DOMAIN files
    /\ files[Append(DATA_DIR, last.filename)].bytes # last.content
    /\ files[Append(DATA_DIR, last.saved_name)].bytes = last.content

\* C2 (collision resolution): a save returns the desired name when nothing is
\* at storage_root/desired_name, else stem_k.ext for the least k >= 1 with
\* nothing at storage_root/stem_k.ext, and the content is the new file at
\* storage_root/returned_name.
CollisionResolution ==
    [][UploadReturned =>
        LET desired == Join(DATA_DIR, last'.filename)
            written == Append(DATA_DIR, last'.saved_name)
        IN  /\ IF ~Exists(dirs, files, desired)
               THEN last'.saved_name = last'.filename
               ELSE \E k \in 1..(Cardinality(DOMAIN files) + Cardinality(dirs) + 1) :
                       /\ Join(DATA_DIR, last'.saved_name) = Candidate(PathStem(desired), k, PathSuffix(desired))
                       /\ ~Exists(dirs, files, Candidate(PathStem(desired), k, PathSuffix(desired)))
                       /\ \A j \in 1..(k - 1) : Exists(dirs, files, Candidate(PathStem(desired), j, PathSuffix(desired)))
            /\ DOMAIN files' = DOMAIN files \cup {written}
            /\ written \notin DOMAIN files
            /\ files'[written].bytes = last'.content]_vars

\* C3 (storage-root confinement): every file lies directly under the storage
\* root, and a save that returned a name wrote the file at storage_root/name.
RootConfinement ==
    /\ \A l \in DOMAIN files : l \in Entries(dirs, files)
    /\ (last.op = "upload" /\ last.status = "ok") =>
          /\ Append(DATA_DIR, last.saved_name) \in DOMAIN files
          /\ files[Append(DATA_DIR, last.saved_name)].bytes = last.content

\* C4 (all-or-nothing write): an upload either lands its whole content in a
\* new file, or fails and leaves the files as they were.
AllOrNothing ==
    [][last'.op = "upload" =>
        IF last'.status = "ok"
        THEN \E l \in DOMAIN files' \ DOMAIN files : files'[l].bytes = last'.content
        ELSE files' = files]_vars

(***************************************************************************)
(* Properties of list_files (SpecList)                                     *)
(***************************************************************************)
\* The regular files directly under the storage root.
RootFiles == DOMAIN files \cap Entries(dirs, files)

IsCalendarDate(s) ==
    LET p == Split(s, "-")
    IN  /\ Len(p) = 3
        /\ \A k \in 1..3 : p[k] # <<>> /\ AllDigits(p[k])
        /\ Len(p[1]) = 4 /\ Len(p[2]) <= 2 /\ Len(p[3]) <= 2
        /\ IsDate(IntOf(p[1]), IntOf(p[2]), IntOf(p[3]))

\* The date s names, or no date.
DateNamed(s) ==
    IF IsCalendarDate(s)
    THEN <<IntOf(Split(s, "-")[1]), IntOf(Split(s, "-")[2]), IntOf(Split(s, "-")[3])>>
    ELSE <<0, 0, 0>>

\* The day the listed file was last modified, from the file system.
ModifiedOn(f) ==
    LET dt == FromTimestamp(files[Append(DATA_DIR, f.filename)].mtime)
    IN  <<dt.year, dt.month, dt.day>>

\* The effective date by the rule as stated: taken_date when present.
EffectiveIfPresent(f) == IF f.taken_date # None THEN DateNamed(f.taken_date) ELSE ModifiedOn(f)

\* The effective date by the rule as amended: taken_date when present and not empty.
EffectiveIfNonEmpty(f) == IF Truthy(f.taken_date) THEN DateNamed(f.taken_date) ELSE ModifiedOn(f)

\* The effective date of the glossary: taken_date when present and valid.
EffectiveIfValid(f) ==
    IF f.taken_date # None /\ IsCalendarDate(f.taken_date) THEN DateNamed(f.taken_date) ELSE ModifiedOn(f)

CalendarReturned == last.op = "calendar" /\ last.status = "ok"

\* The number of files the summary counts, over all days.
RECURSIVE Total(_)
Total(counts) == IF counts = <<>> THEN 0 ELSE counts[1][2] + Total(Tail(counts))

\* The summary follows the effective dates eff, one per listed file: its days
\* are the days of the files whose date lies in the month asked for, and it
\* counts each such file once.
FollowsRule(eff) ==
    LET y == last.summary.year
        m == last.summary.month
        matching == {k \in 1..Len(eff) : eff[k][1] = y /\ eff[k][2] = m}
    IN  /\ {last.summary.days[k] : k \in 1..Len(last.summary.days)} = {eff[k][3] : k \in matching}
        /\ Total(last.summary.count_by_day) = Cardinality(matching)

\* C6 as stated (date priority): a file with a present taken_date counts under
\* that date alone, never under the date of its uploaded_at.
DatePriority ==
    CalendarReturned => FollowsRule([k \in 1..Len(last.items) |-> EffectiveIfPresent(last.items[k])])

\* C6 as amended: a file counts under its taken_date when that is present and
\* not the empty string, else under the date of its uploaded_at.
DatePriorityNonEmpty ==
    CalendarReturned => FollowsRule([k \in 1..Len(last.items) |-> EffectiveIfNonEmpty(last.items[k])])

\* March is asked for: a file taken on March 5 and uploaded in February is
\* there, and so is a file with an empty taken_date uploaded on March 1.
DatePriorityWitness ==
    /\ CalendarReturned
    /\ last.summary.month = 3
    /\ last.summary.days = <<1, 5>>
    /\ \E k \in 1..Len(last.items) : last.items[k].taken_date = <<>> /\ ModifiedOn(last.items[k])[2] = 3
    /\ \E k \in 1..Len(last.items) : Truthy(last.items[k].taken_date) /\ ModifiedOn(last.items[k])[2] = 2

\* C7 as stated (strict parsing): the summary fails exactly when some file has
\* a present taken_date that names no date.
StrictParsing ==
    last.op = "calendar" =>
        (last.status = "error" <=>
            \E k \in 1..Len(last.items) :
                last.items[k].taken_date # None /\ ~IsCalendarDate(last.items[k].taken_date))

\* C7 as amended: the summary fails exactly when some file has a taken_date
\* that is not empty and names no date.
StrictParsingNonEmpty ==
    last.op = "calendar" =>
        (last.status = "error" <=>
            \E k \in 1..Len(last.items) :
                Truthy(last.items[k].taken_date) /\ ~IsCalendarDate(last.items[k].taken_date))

\* A summary failed over a file of month 13 and a file with a good date.
StrictParsingWitness ==
    /\ last.op = "calendar" /\ last.status = "error"
    /\ \E k \in 1..Len(last.items) : Truthy(last.items[k].taken_date) /\ ~IsCalendarDate(last.items[k].taken_date)
    /\ \E k \in 1..Len(last.items) : IsCalendarDate(last.items[k].taken_date)

\* C8 (summary consistency): days ascends strictly, the keys of count_by_day
\* are the days as strings, each count is the number of files of that
\* effective date and at least 1, the counts sum to the matching files, and
\* no file gives an empty summary.
SummaryConsistent ==
    CalendarReturned =>
        LET items == last.items
            days == last.summary.days
            counts == last.summary.count_by_day
            on(d) == {k \in 1..Len(items) : EffectiveIfValid(items[k]) = <<last.summary.year, last.summary.month, d>>}
        IN  /\ \A i, j \in 1..Len(days) : i < j => days[i] < days[j]
            /\ Len(counts) = Len(days)
            /\ \A k \in 1..Len(days) :
                  /\ counts[k][1] = Str(days[k])
                  /\ counts[k][2] = Cardinality(on(days[k]))
                  /\ counts[k][2] >= 1
            /\ Total(counts) = Cardinality(UNION {on(d) : d \in 1..31})
            /\ items = <<>> => days = <<>> /\ counts = <<>>

\* A summary of two days.
SummaryWitness == CalendarReturned /\ Len(last.summary.days) = 2 /\ Len(last.items) = 2

\* C10: the persistent failure of the calendar.
\* A stored file whose taken_date is present and names no date.
StoredPresentInvalid ==
    \E l \in RootFiles :
        ExifTakenDate(dirs, files, l) # None /\ ~IsCalendarDate(ExifTakenDate(dirs, files, l))

\* Among the files fs, one under the storage root whose taken_date is not
\* empty and names no date.
NonEmptyInvalidIn(ds, fs) ==
    \E l \in DOMAIN fs \cap Entries(ds, fs) :
        Truthy(ExifTakenDate(ds, fs, l)) /\ ~IsCalendarDate(ExifTakenDate(ds, fs, l))

\* C10 as stated: with a file stored whose taken_date is present and names no
\* date, every calendar request fails.
PresentInvalidFails == (StoredPresentInvalid /\ last.op = "calendar") => last.status = "error"

\* C10 as amended: a file whose taken_date is not empty and names no date
\* stays stored as it is; from then on each listing succeeds and holds it,
\* and each calendar request fails, whatever month it asks for.
PersistentFailure ==
    [][/\ NonEmptyInvalidIn(dirs, files) => NonEmptyInvalidIn(dirs', files')
       /\ (NonEmptyInvalidIn(dirs', files') /\ last'.op = "calendar") => last'.status = "error"
       /\ (NonEmptyInvalidIn(dirs', files') /\ last'.op = "files") =>
             /\ last'.status = "ok"
             /\ \E k \in 1..Len(last'.items) :
                   Truthy(last'.items[k].taken_date) /\ ~IsCalendarDate(last'.items[k].taken_date)]_vars

\* The month-13 file was stored first, a file with a good date after it, and a
\* calendar request for February failed.
PersistentFailureWitness ==
    /\ last.op = "calendar" /\ last.status = "error" /\ last.summary.month = 2
    /\ Len(last.items) = 2
    /\ Truthy(last.items[2].taken_date) /\ ~IsCalendarDate(last.items[2].taken_date)
    /\ IsCalendarDate(last.items[1].taken_date)
    /\ last.items[1].uploaded_at # last.items[2].uploaded_at

(***************************************************************************)
(* The race of two uploads (SpecRace)                                      *)
(***************************************************************************)
BothDone == \A p \in Workers : pc[p] = "done"

\* Both workers passed the existence check of one path before either wrote.
BothPassedCheck == \E p \in Workers : w[p].raced

\* C5 (check-then-act race): two uploads that both passed the check of the
\* same path before either wrote both return that one name; the file under it
\* holds the content of one of them, and when the contents differ the other
\* content is in no file.
KnownRace ==
    (BothDone /\ BothPassedCheck) =>
        LET target == Append(DATA_DIR, w[1].saved_name)
        IN  /\ w[1].saved_name = w[2].saved_name
            /\ target \in DOMAIN files
            /\ files[target].bytes \in {w[1].content, w[2].content}
            /\ \A l \in DOMAIN files \ {target} : files[l].bytes \notin {w[1].content, w[2].content}

\* The race has happened on "a.j" with two different contents.
KnownRaceWitness ==
    /\ BothDone /\ BothPassedCheck
    /\ w[1].filename = w[2].filename
    /\ w[1].content # w[2].content
    /\ w[1].saved_name = w[2].saved_name

=============================================================================
